---- MODULE Spec2Model ----
(***************************************************************************)
(* The install orchestrator of src/cli/commands/install.js: the class      *)
(* Install (fetchRequestFromCwd, bailout, markIgnored, init, flatten,      *)
(* pruneOfflineMirror, saveLockfileAndIntegrity, hydrate) over a working   *)
(* directory holding a root manifest, a lockfile file, an integrity file   *)
(* and an offline mirror.                                                  *)
(***************************************************************************)
EXTENDS Integers, Sequences, FiniteSets, TLC

(***************************************************************************)
(* Bounds of the model.                                                    *)
(***************************************************************************)
\* Runs of init / hydrate made one after the other on the same directory.
MaxRuns == 2
\* Files of the offline mirror in the prune specification.
MaxMirrorFiles == 2

(***************************************************************************)
(* Values.                                                                 *)
(***************************************************************************)
\* An absent file, a null reference, an undefined field.
NoFile == "NoFile"
Null == "null"

\* Package names and the iteration order of `for (const name in depMap)`.
NameOrder == <<"a", "b">>
Names == {NameOrder[i] : i \in 1..Len(NameOrder)}
Ranges == {"1", "2"}

\* The elements of a sequence.
Range(s) == {s[i] : i \in 1..Len(s)}

(***************************************************************************)
(* Strings are sequences of tokens; "/" and "#" are the separators that    *)
(* path.basename and String.split('#') look for.                           *)
(***************************************************************************)
\* s.split('#')[0]: the text before the first '#'.
RECURSIVE SplitHashFirst(_)
SplitHashFirst(s) ==
  IF s = <<>> THEN <<>>
  ELSE IF Head(s) = "#" THEN <<>>
  ELSE <<Head(s)>> \o SplitHashFirst(Tail(s))

\* Trailing path separators are dropped by path.basename.
RECURSIVE DropTrailingSlashes(_)
DropTrailingSlashes(s) ==
  IF s = <<>> THEN <<>>
  ELSE IF s[Len(s)] = "/" THEN DropTrailingSlashes(SubSeq(s, 1, Len(s) - 1))
  ELSE s

\* The text after the last '/'.
RECURSIVE AfterLastSlash(_)
AfterLastSlash(s) ==
  IF s = <<>> THEN <<>>
  ELSE IF s[Len(s)] = "/" THEN <<>>
  ELSE AfterLastSlash(SubSeq(s, 1, Len(s) - 1)) \o <<s[Len(s)]>>

\* path.basename(p)
Basename(p) == AfterLastSlash(DropTrailingSlashes(p))

(***************************************************************************)
(* The lockfile (lockfile/wrapper.js, consumed through getLocked,          *)
(* getLockfile and cache): a map from pattern to the locked record.        *)
(* A pattern is <<name>> (bare) or <<name, "@", range>>.                   *)
(***************************************************************************)
EmptyMap == [x \in {} |-> x]

\* A Lockfile object: cache is undefined when no lockfile was loaded.
NoLockfile == [loaded |-> FALSE, cache |-> EmptyMap]

\* Truthiness of this.lockfile.getLocked(pattern)
IsLocked(lockfile, pattern) == lockfile.loaded /\ pattern \in DOMAIN lockfile.cache

(***************************************************************************)
(* Registries in Object.keys(registries) order, and the root manifests     *)
(* found in cwd, as readJson and normalizeManifest return them.            *)
(***************************************************************************)
RegistryOrder == <<"npm", "yarn">>
Registries == {RegistryOrder[i] : i \in 1..Len(RegistryOrder)}

NoManifest ==
  [exists |-> FALSE, dependencies |-> EmptyMap, devDependencies |-> EmptyMap,
   optionalDependencies |-> EmptyMap, resolutions |-> EmptyMap, flat |-> FALSE]

\* The accumulators of fetchRequestFromCwd (lines 204-209) and the fields of
\* the Install it assigns (rootManifestRegistries, rootPatternsToOrigin,
\* resolutions).
EmptyRequest(resolutions) ==
  [requests |-> <<>>, patterns |-> <<>>, usedPatterns |-> <<>>, ignorePatterns |-> <<>>,
   manifest |-> NoManifest, rootManifestRegistries |-> <<>>,
   rootPatternsToOrigin |-> EmptyMap, resolutions |-> resolutions]

\* The body of the loop over depMap in pushDeps, for one name.
PushDep(st, name, range, depType, opts, isUsed, registry, lockfile) ==
  LET pattern == IF IsLocked(lockfile, <<name>>) THEN <<name>> ELSE <<name, "@", range>>
  IN [st EXCEPT
        !.usedPatterns = IF isUsed THEN Append(@, pattern) ELSE @,
        !.ignorePatterns = IF isUsed THEN @ ELSE Append(@, pattern),
        !.rootPatternsToOrigin = (pattern :> depType) @@ @,
        !.patterns = Append(@, pattern),
        !.requests = Append(@, [pattern |-> pattern, registry |-> registry,
                                hint |-> opts.hint, optional |-> opts.optional])]

RECURSIVE PushDepsFrom(_, _, _, _, _, _, _, _, _)
PushDepsFrom(i, st, depMap, depType, opts, isUsed, registry, lockfile, excludeNames) ==
  IF i > Len(NameOrder) THEN st
  ELSE LET name == NameOrder[i]
           next == IF name \notin DOMAIN depMap \/ name \in excludeNames THEN st
                   ELSE PushDep(st, name, depMap[name], depType, opts, isUsed, registry, lockfile)
       IN PushDepsFrom(i + 1, next, depMap, depType, opts, isUsed, registry, lockfile, excludeNames)

\* pushDeps(depType, {hint, optional}, isUsed)
PushDeps(st, depMap, depType, opts, isUsed, registry, lockfile, excludeNames, ignoreUnusedPatterns) ==
  IF ignoreUnusedPatterns /\ ~isUsed THEN st
  ELSE PushDepsFrom(1, st, depMap, depType, opts, isUsed, registry, lockfile, excludeNames)

\* The body of the registry loop for the registry whose manifest exists.
ReadRootManifest(st, registry, json, lockfile, production, ignoreOptional, excludeNames, ignoreUnusedPatterns) ==
  LET st0 == [st EXCEPT !.rootManifestRegistries = Append(@, registry),
                        !.resolutions = json.resolutions @@ @,
                        !.manifest = json]
      st1 == PushDeps(st0, json.dependencies, "dependencies",
                      [hint |-> Null, optional |-> FALSE], TRUE,
                      registry, lockfile, excludeNames, ignoreUnusedPatterns)
      st2 == PushDeps(st1, json.devDependencies, "devDependencies",
                      [hint |-> "dev", optional |-> FALSE], ~production,
                      registry, lockfile, excludeNames, ignoreUnusedPatterns)
  IN PushDeps(st2, json.optionalDependencies, "optionalDependencies",
              [hint |-> "optional", optional |-> TRUE], ~ignoreOptional,
              registry, lockfile, excludeNames, ignoreUnusedPatterns)

\* The registry loop without the break of line 271.
RECURSIVE RegistryLoopNoBreak(_, _, _, _, _, _, _, _)
RegistryLoopNoBreak(i, st, cwd, lockfile, production, ignoreOptional, excludeNames, ignoreUnusedPatterns) ==
  IF i > Len(RegistryOrder) THEN st
  ELSE RegistryLoopNoBreak(i + 1,
         IF ~cwd[RegistryOrder[i]].exists THEN st
         ELSE ReadRootManifest(st, RegistryOrder[i], cwd[RegistryOrder[i]], lockfile, production,
                               ignoreOptional, excludeNames, ignoreUnusedPatterns),
         cwd, lockfile, production, ignoreOptional, excludeNames, ignoreUnusedPatterns)

\* for (const registry of Object.keys(registries)) { ...; break; }
RECURSIVE RegistryLoop(_, _, _, _, _, _, _, _)
RegistryLoop(i, st, cwd, lockfile, production, ignoreOptional, excludeNames, ignoreUnusedPatterns) ==
  IF i > Len(RegistryOrder) THEN st
  ELSE IF ~cwd[RegistryOrder[i]].exists
       THEN RegistryLoop(i + 1, st, cwd, lockfile, production, ignoreOptional,
                         excludeNames, ignoreUnusedPatterns)
       ELSE ReadRootManifest(st, RegistryOrder[i], cwd[RegistryOrder[i]], lockfile, production,
                             ignoreOptional, excludeNames, ignoreUnusedPatterns)

\* Install.fetchRequestFromCwd(excludePatterns, ignoreUnusedPatterns); the
\* names of excludePatterns are given as excludeNames.
FetchRequestFromCwd(cwd, lockfile, production, ignoreOptional, resolutions, excludeNames, ignoreUnusedPatterns) ==
  RegistryLoop(1, EmptyRequest(resolutions), cwd, lockfile, production, ignoreOptional,
               excludeNames, ignoreUnusedPatterns)


(***************************************************************************)
(* The package resolver (package-resolver.js), consumed through init,      *)
(* patterns, patternsByPackage, getAllDependencyNamesByLevelOrder,         *)
(* getAllInfoForPackageName, collapseAllVersionsOfPackage and the          *)
(* references' requests and ignore fields.  A package is <<name, version>>.*)
(***************************************************************************)
\* The registry's packages: an exact range names its version.
AllNames == Names \cup {"c"}

\* The dependencies a package version declares.
PkgDeps(key) ==
  CASE key = <<"a", "1">> -> << <<"c", "@", "1">> >>
    [] key = <<"a", "2">> -> << <<"b", "@", "1">> >>
    [] key = <<"b", "1">> -> << <<"c", "@", "2">> >>
    [] OTHER -> <<>>

\* The tarball URL the registry gives for a package version.
RegistryResolved(name, version) == <<"r", "/", name, version, "#", "h">>

EmptyResolver ==
  [patterns |-> EmptyMap, order |-> <<>>, manifests |-> EmptyMap,
   requests |-> EmptyMap, ignore |-> {}]

\* The manifest a pattern resolves to: the locked one, else the registry's.
FindManifest(pattern, lockfile) ==
  IF IsLocked(lockfile, pattern)
  THEN [key |-> <<pattern[1], lockfile.cache[pattern].version>>,
        resolved |-> lockfile.cache[pattern].resolved]
  ELSE [key |-> <<pattern[1], pattern[3]>>,
        resolved |-> RegistryResolved(pattern[1], pattern[3])]

\* resolver.init: resolve the requests and, breadth first, what they depend on.
RECURSIVE ResolveQueue(_, _, _)
ResolveQueue(queue, rs, lockfile) ==
  IF queue = <<>> THEN rs
  ELSE LET pattern == Head(queue) IN
    IF pattern \in DOMAIN rs.patterns
    THEN ResolveQueue(Tail(queue),
           [rs EXCEPT !.requests[rs.patterns[pattern]] = @ + 1], lockfile)
    ELSE LET m == FindManifest(pattern, lockfile) IN
      IF m.key \in DOMAIN rs.manifests
      THEN ResolveQueue(Tail(queue),
             [rs EXCEPT !.patterns = (pattern :> m.key) @@ @,
                        !.order = Append(@, pattern),
                        !.requests[m.key] = @ + 1], lockfile)
      ELSE ResolveQueue(Tail(queue) \o PkgDeps(m.key),
             [rs EXCEPT !.patterns = (pattern :> m.key) @@ @,
                        !.order = Append(@, pattern),
                        !.manifests = (m.key :> [resolved |-> m.resolved]) @@ @,
                        !.requests = (m.key :> 1) @@ @], lockfile)

ResolverInit(requests, lockfile) ==
  ResolveQueue([i \in 1..Len(requests) |-> requests[i].pattern], EmptyResolver, lockfile)

\* resolver.getAllDependencyNamesByLevelOrder(patterns)
RECURSIVE LevelOrderNames(_, _, _, _)
LevelOrderNames(queue, seen, names, rs) ==
  IF queue = <<>> THEN names
  ELSE LET key == rs.patterns[Head(queue)] IN
    IF key \in seen THEN LevelOrderNames(Tail(queue), seen, names, rs)
    ELSE LevelOrderNames(Tail(queue) \o PkgDeps(key), seen \cup {key},
                         IF key[1] \in Range(names) THEN names ELSE Append(names, key[1]), rs)

GetAllDependencyNamesByLevelOrder(rs, patterns) == LevelOrderNames(patterns, {}, <<>>, rs)

\* resolver.getAllInfoForPackageName(name): the packages of that name.
GetAllInfoForPackageName(rs, name) == {rs.patterns[p] : p \in {q \in DOMAIN rs.patterns : q[1] = name}}

\* resolver.patternsByPackage[name], in insertion order.
PatternsByPackage(rs, name) == SelectSeq(rs.order, LAMBDA p : p[1] = name)

\* resolver.collapseAllVersionsOfPackage(name, version): every pattern of the
\* name now resolves to the package of that version; returns its first pattern.
CollapseAllVersionsOfPackage(rs, name, version) ==
  LET pats == PatternsByPackage(rs, name)
      keep == SelectSeq(pats, LAMBDA p : rs.patterns[p] = <<name, version>>)
      gone == {rs.patterns[pats[i]] : i \in 1..Len(pats)} \ {<<name, version>>}
  IN [resolver |->
        [rs EXCEPT !.patterns = [p \in DOMAIN rs.patterns |->
                                   IF p[1] = name THEN <<name, version>> ELSE rs.patterns[p]],
                   !.manifests = [k \in DOMAIN rs.manifests \ gone |-> rs.manifests[k]],
                   !.requests = [k \in DOMAIN rs.requests \ gone |-> rs.requests[k]],
                   !.ignore = @ \ gone],
      pattern |-> keep[1]]

\* lockfile.getLockfile(resolver.patterns): the candidate lockfile image.
GetLockfile(rs) ==
  [p \in DOMAIN rs.patterns |->
     [version |-> rs.patterns[p][2], resolved |-> rs.manifests[rs.patterns[p]].resolved]]


(***************************************************************************)
(* The integrity checker (integrity-checker.js), consumed through check,   *)
(* save and removeIntegrityFile.  The witness on disk records the patterns,*)
(* the lockfile image and the flat flag of the install that wrote it.      *)
(***************************************************************************)
NoIntegrityFile == [exists |-> FALSE, patterns |-> {}, lockfile |-> EmptyMap, flat |-> FALSE]

\* integrityChecker.save(patterns, lockfile, flags, usedRegistries)
IntegritySave(patterns, lockfileImage, flags) ==
  [exists |-> TRUE, patterns |-> Range(patterns), lockfile |-> lockfileImage, flat |-> flags.flat]

\* integrityChecker.check(patterns, lockfileCache, flags)
IntegrityCheck(patterns, lockfileCache, flags, file) ==
  LET missing == {p \in Range(patterns) : p \notin DOMAIN lockfileCache}
  IN [missingPatterns |-> missing,
      integrityFileMissing |-> ~file.exists,
      integrityMatches |-> /\ missing = {}
                           /\ file = IntegritySave(patterns, lockfileCache, flags)]

(***************************************************************************)
(* normalizeFlags (lines 110-156).  A raw flag is "true", "false" or       *)
(* "undefined"; a config option is given by its truthiness.                *)
(***************************************************************************)
\* The flags normalizeFlags reads.
RawFlagNames ==
  {"har", "ignorePlatform", "ignoreEngines", "ignoreScripts", "ignoreOptional", "force",
   "flat", "lockfile", "pureLockfile", "skipIntegrityCheck", "frozenLockfile",
   "linkDuplicates", "checkFiles", "peer", "dev", "optional", "exact", "tilde"}

\* The values a raw flag is given here: the booleans, undefined and the
\* numbers 0 and 1; !!v is true of true and 1.
RawValues == {"true", "false", "undefined", "0", "1"}
Truthy(v) == v \in {"true", "1"}

\* normalizeFlags with each config option assigned to its flag, on or off.
NormalizeFlagsFromConfig(options, rawFlags) ==
  [[f \in RawFlagNames |-> IF f = "lockfile" THEN rawFlags.lockfile # "false" ELSE Truthy(rawFlags[f])]
     EXCEPT !.ignoreScripts = options.ignoreScripts,
            !.ignorePlatform = options.ignorePlatform,
            !.ignoreEngines = options.ignoreEngines,
            !.ignoreOptional = options.ignoreOptional,
            !.force = options.force]

NormalizeFlags(options, rawFlags) ==
  [har |-> Truthy(rawFlags.har),
   ignorePlatform |-> Truthy(rawFlags.ignorePlatform) \/ options.ignorePlatform,
   ignoreEngines |-> Truthy(rawFlags.ignoreEngines) \/ options.ignoreEngines,
   ignoreScripts |-> Truthy(rawFlags.ignoreScripts) \/ options.ignoreScripts,
   ignoreOptional |-> Truthy(rawFlags.ignoreOptional) \/ options.ignoreOptional,
   force |-> Truthy(rawFlags.force) \/ options.force,
   flat |-> Truthy(rawFlags.flat),
   lockfile |-> rawFlags.lockfile # "false",
   pureLockfile |-> Truthy(rawFlags.pureLockfile),
   skipIntegrityCheck |-> Truthy(rawFlags.skipIntegrityCheck),
   frozenLockfile |-> Truthy(rawFlags.frozenLockfile),
   linkDuplicates |-> Truthy(rawFlags.linkDuplicates),
   checkFiles |-> Truthy(rawFlags.checkFiles),
   peer |-> Truthy(rawFlags.peer),
   dev |-> Truthy(rawFlags.dev),
   optional |-> Truthy(rawFlags.optional),
   exact |-> Truthy(rawFlags.exact),
   tilde |-> Truthy(rawFlags.tilde)]

(***************************************************************************)
(* Install.bailout (lines 302-332): what it decides, from the flags, the   *)
(* loaded lockfile and the files on disk.                                  *)
(***************************************************************************)
BailoutOutcome(flags, lockfile, integrity, haveLockfile, patterns) ==
  IF flags.skipIntegrityCheck \/ flags.force THEN "false"
  ELSE IF ~lockfile.loaded THEN "false"
  ELSE LET match == IntegrityCheck(patterns, lockfile.cache, flags, integrity) IN
    IF flags.frozenLockfile /\ Cardinality(match.missingPatterns) > 0 THEN "frozenLockfileError"
    ELSE IF match.integrityMatches /\ haveLockfile THEN "upToDate"
    ELSE IF Len(patterns) = 0 /\ ~match.integrityFileMissing THEN "nothingToInstall"
    ELSE "false"

(***************************************************************************)
(* Install.markIgnored (lines 354-367)                                     *)
(***************************************************************************)
\* markIgnored without the test of ref.requests.length (line 360).
MarkIgnoredAlways(rs, patterns) ==
  [rs EXCEPT !.ignore = @ \cup {rs.patterns[p] : p \in Range(patterns)}]

MarkIgnored(rs, patterns) ==
  [rs EXCEPT !.ignore = @ \cup {rs.patterns[p] : p \in {q \in Range(patterns) :
                                   rs.requests[rs.patterns[q]] = 1}}]

(***************************************************************************)
(* Install.flatten (lines 477-564)                                         *)
(***************************************************************************)
\* FlattenName without the use of the resolutions (lines 515-518): the
\* version is always asked for.
FlattenNameAlwaysAsks(fl, name, answer) ==
  LET rs == fl.resolver
      infos == {k \in GetAllInfoForPackageName(rs, name) : k \notin rs.ignore}
      versions == {k[2] : k \in infos}
      collapsed == CollapseAllVersionsOfPackage(rs, name, answer)
  IN IF Cardinality(infos) = 0 THEN fl
     ELSE IF Cardinality(infos) = 1
     THEN [fl EXCEPT !.flattened = Append(@, PatternsByPackage(rs, name)[1])]
     ELSE IF answer \notin versions THEN [fl EXCEPT !.answered = FALSE]
     ELSE [fl EXCEPT !.resolver = collapsed.resolver,
                     !.resolutions = (name :> answer) @@ @,
                     !.selected = @ \cup {name},
                     !.flattened = Append(@, collapsed.pattern)]

\* One pass of the loop over the names (lines 484-529); answer is what
\* reporter.select returns when it is asked.
FlattenName(fl, name, answer) ==
  LET rs == fl.resolver
      infos == {k \in GetAllInfoForPackageName(rs, name) : k \notin rs.ignore}
      versions == {k[2] : k \in infos}
      preset == name \in DOMAIN fl.resolutions /\ fl.resolutions[name] \in versions
      version == IF preset THEN fl.resolutions[name] ELSE answer
      collapsed == CollapseAllVersionsOfPackage(rs, name, version)
  IN IF Cardinality(infos) = 0 THEN fl
     ELSE IF Cardinality(infos) = 1
     THEN [fl EXCEPT !.flattened = Append(@, PatternsByPackage(rs, name)[1])]
     ELSE IF ~preset /\ answer \notin versions THEN [fl EXCEPT !.answered = FALSE]
     ELSE [fl EXCEPT !.resolver = collapsed.resolver,
                     !.resolutions = IF preset THEN @ ELSE (name :> version) @@ @,
                     !.selected = IF preset THEN @ ELSE @ \cup {name},
                     !.flattened = Append(@, collapsed.pattern)]

RECURSIVE FlattenLoop(_, _, _)
FlattenLoop(names, fl, answers) ==
  IF names = <<>> \/ ~fl.answered THEN fl
  ELSE FlattenLoop(Tail(names), FlattenName(fl, Head(names), answers[Head(names)]), answers)

\* flatten(patterns) up to the saving of the resolutions.
Flatten(flags, rs, resolutions, patterns, answers) ==
  IF ~flags.flat
  THEN [resolver |-> rs, resolutions |-> resolutions, flattened |-> patterns,
        selected |-> {}, answered |-> TRUE]
  ELSE FlattenLoop(GetAllDependencyNamesByLevelOrder(rs, patterns),
                   [resolver |-> rs, resolutions |-> resolutions, flattened |-> <<>>,
                    selected |-> {}, answered |-> TRUE], answers)

\* Lines 531-561: the resolutions merged into the root manifest of the
\* registry the packages come from.
SavedResolutions(rs, resolutions, old) ==
  [n \in {m \in DOMAIN resolutions : Len(PatternsByPackage(rs, m)) > 0} |-> resolutions[n]] @@ old

(***************************************************************************)
(* Install.pruneOfflineMirror (lines 570-590).  A mirror file is its path  *)
(* under the mirror directory.                                             *)
(***************************************************************************)
\* RequiredTarballs with the '#<hash>' suffix left on the resolved field
\* (line 575 without the split).
RequiredTarballsWithHash(lockfileImage) ==
  {Basename(lockfileImage[d].resolved) :
     d \in {x \in DOMAIN lockfileImage : lockfileImage[x].resolved # <<>>}}

RequiredTarballs(lockfileImage) ==
  {Basename(SplitHashFirst(lockfileImage[d].resolved)) :
     d \in {x \in DOMAIN lockfileImage : lockfileImage[x].resolved # <<>>}}

PruneOfflineMirror(mirrorPathSet, files, lockfileImage) ==
  IF ~mirrorPathSet THEN files
  ELSE {f \in files : Basename(f) \in RequiredTarballs(lockfileImage)}

(***************************************************************************)
(* Install.saveLockfileAndIntegrity (lines 596-632)                        *)
(***************************************************************************)
\* --no-lockfile or --pure-lockfile flag
LockfileWritesDisabled(flags) == flags.lockfile = FALSE \/ flags.pureLockfile

LockFileHasAllPatterns(patterns, lockfile) ==
  Cardinality({p \in Range(patterns) : ~IsLocked(lockfile, p)}) = 0

ResolverPatternsAreSameAsInLockfile(lockfileImage, lockfile) ==
  Cardinality({p \in DOMAIN lockfileImage :
     \/ ~IsLocked(lockfile, p)
     \/ lockfile.cache[p].resolved # lockfileImage[p].resolved}) = 0

\* SkipLockfileWrite with the test of patterns.length inverted.
SkipLockfileWriteEmptyOnly(flags, patterns, lockfileImage, lockfile) ==
  /\ LockFileHasAllPatterns(patterns, lockfile)
  /\ ResolverPatternsAreSameAsInLockfile(lockfileImage, lockfile)
  /\ Len(patterns) = 0
  /\ ~flags.force

\* SkipLockfileWrite without the comparison of the resolved values.
SkipLockfileWriteNoResolved(flags, patterns, lockfileImage, lockfile) ==
  /\ LockFileHasAllPatterns(patterns, lockfile)
  /\ Len(patterns) > 0
  /\ ~flags.force

\* Line 620: the lockfile file is left as it is.
SkipLockfileWrite(flags, patterns, lockfileImage, lockfile) ==
  /\ LockFileHasAllPatterns(patterns, lockfile)
  /\ ResolverPatternsAreSameAsInLockfile(lockfileImage, lockfile)
  /\ Len(patterns) > 0
  /\ ~flags.force


(***************************************************************************)
(* The inputs of the runs: raw flags, config, root manifests, lockfiles.   *)
(***************************************************************************)
NoRawFlags == [f \in RawFlagNames |-> "undefined"]

\* Every combination of the flags that steer bailout, flatten and the saving,
\* and the flags that add or drop a step.
PipelineRawFlags ==
  {[NoRawFlags EXCEPT !.lockfile = l, !.pureLockfile = p, !.force = f,
                      !.frozenLockfile = z, !.skipIntegrityCheck = s] :
     l \in {"undefined", "false"}, p \in {"undefined", "true"}, f \in {"undefined", "true"},
     z \in {"undefined", "true"}, s \in {"undefined", "true"}}
  \cup {[NoRawFlags EXCEPT !.flat = "true", !.force = f, !.frozenLockfile = z, !.pureLockfile = p] :
     p \in {"undefined", "true"}, f \in {"undefined", "true"}, z \in {"undefined", "true"}}
  \cup {[NoRawFlags EXCEPT !.har = "true"], [NoRawFlags EXCEPT !.ignoreScripts = "true"]}

NoOptions ==
  [ignoreScripts |-> FALSE, ignorePlatform |-> FALSE, ignoreEngines |-> FALSE,
   ignoreOptional |-> FALSE, force |-> FALSE]

\* config: production, pruneOfflineMirror, getOfflineMirrorPath() set or
\* not, modulesFolder set or not, the clean marker file in cwd, getOption.
DefaultConfig ==
  [production |-> FALSE, pruneOfflineMirror |-> FALSE, offlineMirror |-> FALSE,
   modulesFolder |-> FALSE, cleanFile |-> FALSE, options |-> NoOptions]

Manifest(deps, dev, res, isFlat) ==
  [exists |-> TRUE, dependencies |-> deps, devDependencies |-> dev,
   optionalDependencies |-> EmptyMap, resolutions |-> res, flat |-> isFlat]

\* The working directories and configs the runs are made in: the root
\* manifest of the npm registry and the config.
Production == [DefaultConfig EXCEPT !.production = TRUE]
Pruning == [DefaultConfig EXCEPT !.pruneOfflineMirror = TRUE, !.offlineMirror = TRUE]

Scenarios ==
  {[manifest |-> Manifest(EmptyMap, EmptyMap, EmptyMap, FALSE), config |-> c] :
     c \in {DefaultConfig, Pruning, [DefaultConfig EXCEPT !.modulesFolder = TRUE]}}
  \cup {[manifest |-> Manifest("a" :> "1", EmptyMap, EmptyMap, FALSE), config |-> c] :
     c \in {DefaultConfig, Pruning, [DefaultConfig EXCEPT !.cleanFile = TRUE]}}
  \cup {[manifest |-> Manifest("a" :> "1", EmptyMap, "c" :> "2", FALSE), config |-> DefaultConfig]}
  \cup {[manifest |-> Manifest("a" :> "1", "b" :> "1", EmptyMap, FALSE), config |-> c] :
     c \in {DefaultConfig, Production, [Pruning EXCEPT !.production = TRUE]}}
  \cup {[manifest |-> Manifest("a" :> "1", "b" :> "1", "c" :> "2", FALSE), config |-> c] :
     c \in {DefaultConfig, Production}}
  \cup {[manifest |-> Manifest("a" :> "1", "b" :> "1", EmptyMap, TRUE), config |-> DefaultConfig]}
  \cup {[manifest |-> Manifest("a" :> "1", "b" :> "1", "c" :> "3", FALSE), config |-> DefaultConfig]}
  \cup {[manifest |-> Manifest(EmptyMap, "b" :> "1", EmptyMap, FALSE), config |-> c] :
     c \in {DefaultConfig, Production}}
  \cup {[manifest |-> Manifest("a" :> "2", "b" :> "1", EmptyMap, FALSE), config |-> Production]}
  \cup {[manifest |-> Manifest("a" :> "1", "a" :> "1", EmptyMap, FALSE), config |-> Production]}
  \cup {[manifest |-> Manifest("a" :> "2", "b" :> "2", EmptyMap, FALSE), config |-> Production]}

NoLockfileFile == [exists |-> FALSE, cache |-> EmptyMap]

\* The lockfile files the directory may start with: none, or one that pins
\* a@1 only.
InitialLockfileFiles ==
  {NoLockfileFile,
   [exists |-> TRUE,
    cache |-> <<"a", "@", "1">> :> [version |-> "1", resolved |-> RegistryResolved("a", "1")]]}

\* The offline mirror the directory starts with.
InitialMirror == {<<"a", "1">>, <<"old", "/", "z", "0">>}

\* Lockfile.fromDirectory(config.cwd)
FromDirectory(file) == [loaded |-> file.exists, cache |-> file.cache]

(***************************************************************************)
(* State.                                                                  *)
(***************************************************************************)
VARIABLES
  cwd,            \* registry -> the root manifest file in the working directory
  lockfileFile,   \* the lockfile file in the working directory
  integrityFile,  \* the integrity file
  mirror,         \* the files of the offline mirror
  config,         \* the Config of the runs
  rawFlags,       \* the flags the runs are invoked with
  runs,           \* runs started so far
  kind,           \* "none", "init" or "hydrate": the run in progress or just ended
  pc,             \* where the run is
  flags,          \* this.flags
  lockfile,       \* this.lockfile
  request,        \* what fetchRequestFromCwd returned and assigned
  resolver,       \* this.resolver
  flattened,      \* flattenedTopLevelPatterns
  calls,          \* collaborator calls started in this run
  completed,      \* collaborator calls that returned in this run
  writes,         \* what this run wrote in or under the working directory
  error,          \* the error the run failed with
  bailout,        \* what bailout decided
  repeat,         \* this init follows an init that returned, with nothing in between
  hydrateFetch,   \* hydrate's fetch argument
  fr,             \* a call of fetchRequestFromCwd on its own
  pr,             \* a call of pruneOfflineMirror on its own
  interrupted,    \* this init follows an init that failed between the removal and the save of the integrity file
  up,             \* the update check: the _checkUpdate task and maybeOutputUpdate
  rn,             \* a call of run: its arguments, the lifecycle scripts executed, its outcome
  nf              \* a call of normalizeFlags on its own

diskVars == <<cwd, lockfileFile, integrityFile, mirror>>
runVars == <<runs, kind, pc, flags, lockfile, request, resolver, flattened, calls, completed, writes, error, bailout, repeat, hydrateFetch>>
vars == <<cwd, lockfileFile, integrityFile, mirror, config, rawFlags, runs, kind, pc, flags, lockfile, request, resolver, flattened, calls, completed, writes, error, bailout, repeat, hydrateFetch, fr, pr, interrupted, up, rn, nf>>

NoCall == [phase |-> "none"]

\* checkUpdate returned at one of lines 673-692: no _checkUpdate task.
NoUpdateCheck ==
  [enabled |-> FALSE, task |-> "none", remote |-> [valid |-> FALSE, version |-> <<>>],
   armed |-> FALSE, hint |-> FALSE]

\* YARN_VERSION, and what the self-update URL may answer: something that is
\* not a version, an older, the same and two newer versions.
RunningVersion == <<1, 0, 0>>

RemoteVersions ==
  {[valid |-> FALSE, version |-> <<>>]}
    \cup {[valid |-> TRUE, version |-> v] : v \in {<<0, 9, 9>>, <<1, 0, 0>>, <<1, 0, 1>>, <<2, 0, 0>>}}

\* semver.gt on versions of three numbers
SemverGt(a, b) ==
  \/ a[1] > b[1]
  \/ a[1] = b[1] /\ a[2] > b[2]
  \/ a[1] = b[1] /\ a[2] = b[2] /\ a[3] > b[3]

\* checkUpdate (lines 672-697) on a new Install: the task is started unless
\* one of the tests of lines 673-692 returns first.
CheckUpdate(check) ==
  [check EXCEPT !.task = IF check.enabled THEN "pending" ELSE "none",
                !.armed = FALSE, !.hint = FALSE]

InitRun ==
  /\ runs = 0
  /\ kind = "none"
  /\ pc = "idle"
  /\ flags = NormalizeFlags(NoOptions, NoRawFlags)
  /\ lockfile = NoLockfile
  /\ request = EmptyRequest(EmptyMap)
  /\ resolver = EmptyResolver
  /\ flattened = <<>>
  /\ calls = {}
  /\ completed = {}
  /\ writes = {}
  /\ error = "none"
  /\ bailout = "none"
  /\ repeat = FALSE
  /\ hydrateFetch = FALSE
  /\ interrupted = FALSE

Init ==
  /\ \E sc \in Scenarios :
       /\ config = sc.config
       /\ cwd = [r \in Registries |-> IF r = "npm" THEN sc.manifest ELSE NoManifest]
  /\ rawFlags \in PipelineRawFlags
  /\ lockfileFile \in InitialLockfileFiles
  /\ integrityFile = NoIntegrityFile
  /\ mirror = IF config.pruneOfflineMirror THEN InitialMirror ELSE {}
  /\ InitRun
  /\ fr = NoCall
  /\ pr = NoCall
  /\ up = NoUpdateCheck
  /\ rn = NoCall
  /\ nf = NoCall


(***************************************************************************)
(* Install.init (lines 373-463), one action per awaited call.              *)
(***************************************************************************)
Idle == pc \in {"idle", "done", "failed"}

\* The Install as constructed (lines 159-179) and the request of cwd.
Construct(runKind, ignoreUnusedPatterns) ==
  LET lf == IF rawFlags.lockfile = "false" THEN NoLockfile ELSE FromDirectory(lockfileFile)
      fl == NormalizeFlags(config.options, rawFlags)
      req == FetchRequestFromCwd(cwd, lf, config.production, fl.ignoreOptional,
                                 EmptyMap, {}, ignoreUnusedPatterns)
  IN /\ runs' = runs + 1
     /\ kind' = runKind
     /\ lockfile' = lf
     /\ flags' = [fl EXCEPT !.flat = @ \/ req.manifest.flat]
     /\ request' = req
     /\ resolver' = EmptyResolver
     /\ flattened' = <<>>
     /\ calls' = {}
     /\ completed' = {}
     /\ writes' = {}
     /\ error' = "none"
     /\ bailout' = "none"
     /\ pc' = "resolve"

\* The run that just ended is an init that failed after removeIntegrityFile
\* returned (line 409) and before integrityChecker.save returned (line 609).
Interrupted ==
  /\ kind = "init" /\ pc = "failed"
  /\ "integrityChecker.removeIntegrityFile" \in completed
  /\ "integrityChecker.save" \notin completed

\* run (lines 757-762, 789-790) and init up to the first step.
StartInit ==
  /\ Idle
  /\ runs < MaxRuns
  /\ Construct("init", FALSE)
  /\ repeat' = (kind = "init" /\ pc = "done")
  /\ interrupted' = Interrupted
  /\ hydrateFetch' = FALSE
  /\ up' = CheckUpdate(up)
  /\ UNCHANGED <<diskVars, config, rawFlags, fr, pr, rn, nf>>

\* The call the run is awaiting at pc.
AwaitedCall ==
  CASE pc = "resolve" -> "resolver.init"
    [] pc = "saveRootManifests" -> "config.saveRootManifests"
    [] pc = "bailout" -> "integrityChecker.check"
    [] pc = "emptyFolders" -> "fs.mkdirp"
    [] pc = "fetch" -> "fetcher.init"
    [] pc = "compatibility" -> "compatibility.init"
    [] pc = "removeIntegrity" -> "integrityChecker.removeIntegrityFile"
    [] pc = "link" -> "linker.init"
    [] pc = "scripts" -> "scripts.init"
    [] pc = "har" -> "requestManager.saveHar"
    [] pc = "clean" -> "clean"
    [] pc = "prune" -> "pruneOfflineMirror"
    [] pc = "saveIntegrity" -> "integrityChecker.save"
    [] pc = "writeLockfile" -> "fs.writeFilePreservingEol"
    [] pc = "hydrateFetch" -> "fetcher.init"
    [] pc = "hydrateCompatibility" -> "compatibility.init"
    [] pc = "hydrateExpand" -> "config.readManifest"
    [] OTHER -> "none"

\* The awaited call is made and returns; the run goes on at next.
Returned(next) ==
  /\ calls' = calls \cup {AwaitedCall}
  /\ completed' = completed \cup {AwaitedCall}
  /\ pc' = next

\* CollaboratorFails with the request cache cleared on the way out.
CollaboratorFailsClearsCache ==
  /\ AwaitedCall # "none"
  /\ pc = "bailout" => ~(flags.skipIntegrityCheck \/ flags.force \/ ~lockfile.loaded)
  /\ pc = "scripts" => ~flags.ignoreScripts
  /\ pc = "emptyFolders" => ~config.modulesFolder /\ request.rootManifestRegistries # <<>>
  /\ pc # "prune"
  /\ calls' = calls \cup {AwaitedCall, "requestManager.clearCache"}
  /\ pc' = "failed"
  /\ error' = "collaborator"
  /\ UNCHANGED <<diskVars, config, rawFlags, runs, kind, flags, lockfile, request, resolver, flattened, completed, writes, bailout, repeat, hydrateFetch, fr, pr, interrupted, up, rn, nf>>

\* The awaited call is made and fails: the error propagates out of the run.
CollaboratorFails ==
  /\ AwaitedCall # "none"
  /\ pc = "bailout" => ~(flags.skipIntegrityCheck \/ flags.force \/ ~lockfile.loaded)
  /\ pc = "scripts" => ~flags.ignoreScripts
  /\ pc = "emptyFolders" => ~config.modulesFolder /\ request.rootManifestRegistries # <<>>
  /\ pc # "prune"
  /\ calls' = calls \cup {AwaitedCall}
  /\ pc' = "failed"
  /\ error' = "collaborator"
  /\ UNCHANGED <<diskVars, config, rawFlags, runs, kind, flags, lockfile, request, resolver, flattened, completed, writes, bailout, repeat, hydrateFetch, fr, pr, interrupted, up, rn, nf>>

\* Where the run goes after flatten.
AfterFlatten == IF kind = "init" THEN "bailout" ELSE "hydrateMark"

\* Step 1, line 394: resolver.init
ResolveStep ==
  /\ pc = "resolve"
  /\ resolver' = ResolverInit(request.requests, lockfile)
  /\ Returned("flatten")
  /\ UNCHANGED <<diskVars, config, rawFlags, runs, kind, flags, lockfile, request, flattened, writes, error, bailout, repeat, hydrateFetch, fr, pr, interrupted, up, rn, nf>>

\* FlattenStep with markIgnored(ignorePatterns) run before flatten.
FlattenStepMarksFirst ==
  /\ pc = "flatten"
  /\ \E answers \in [AllNames -> Ranges] :
       LET fl == Flatten(flags, MarkIgnored(resolver, request.ignorePatterns),
                         request.resolutions, request.patterns, answers) IN
         /\ fl.answered
         /\ resolver' = fl.resolver
         /\ request' = [request EXCEPT !.resolutions = fl.resolutions]
         /\ flattened' = fl.flattened
         /\ calls' = calls \cup (IF fl.selected = {} THEN {} ELSE {"reporter.select"})
         /\ completed' = completed \cup (IF fl.selected = {} THEN {} ELSE {"reporter.select"})
         /\ pc' = IF flags.flat /\ DOMAIN fl.resolutions # {}
                  THEN "saveRootManifests" ELSE AfterFlatten
  /\ UNCHANGED <<diskVars, config, rawFlags, runs, kind, flags, lockfile, writes, error, bailout, repeat, hydrateFetch, fr, pr, interrupted, up, rn, nf>>

\* flatten, lines 477-529 (and 531-532 when nothing is to be saved)
FlattenStep ==
  /\ pc = "flatten"
  /\ \E answers \in [AllNames -> Ranges] :
       LET fl == Flatten(flags, resolver, request.resolutions, request.patterns, answers) IN
         /\ fl.answered
         /\ resolver' = fl.resolver
         /\ request' = [request EXCEPT !.resolutions = fl.resolutions]
         /\ flattened' = fl.flattened
         /\ calls' = calls \cup (IF fl.selected = {} THEN {} ELSE {"reporter.select"})
         /\ completed' = completed \cup (IF fl.selected = {} THEN {} ELSE {"reporter.select"})
         /\ pc' = IF flags.flat /\ DOMAIN fl.resolutions # {}
                  THEN "saveRootManifests" ELSE AfterFlatten
  /\ UNCHANGED <<diskVars, config, rawFlags, runs, kind, flags, lockfile, writes, error, bailout, repeat, hydrateFetch, fr, pr, interrupted, up, rn, nf>>

\* flatten, lines 532-561: the resolutions are saved to the root manifest
SaveRootManifests ==
  /\ pc = "saveRootManifests"
  /\ LET registry == request.rootManifestRegistries[1] IN
       cwd' = [cwd EXCEPT ![registry].resolutions = SavedResolutions(resolver, request.resolutions, @)]
  /\ writes' = writes \cup {"rootManifest"}
  /\ Returned(AfterFlatten)
  /\ UNCHANGED <<lockfileFile, integrityFile, mirror, config, rawFlags, runs, kind, flags, lockfile, request, resolver, flattened, error, bailout, repeat, hydrateFetch, fr, pr, interrupted, up, rn, nf>>

\* What bailout(usedPatterns) decides at line 397.
Decision == BailoutOutcome(flags, lockfile, integrityFile, lockfileFile.exists, request.usedPatterns)

\* integrityChecker.check is reached (lines 305-312)
Checked == ~(flags.skipIntegrityCheck \/ flags.force) /\ lockfile.loaded

\* bailout returns false: the pipeline goes on with step 2
BailoutFalse ==
  /\ pc = "bailout"
  /\ Decision = "false"
  /\ calls' = calls \cup (IF Checked THEN {"integrityChecker.check"} ELSE {})
  /\ completed' = completed \cup (IF Checked THEN {"integrityChecker.check"} ELSE {})
  /\ pc' = "fetch"
  /\ UNCHANGED <<diskVars, config, rawFlags, runs, kind, flags, lockfile, request, resolver, flattened, writes, error, bailout, repeat, hydrateFetch, fr, pr, interrupted, up, rn, nf>>

\* lines 313-315: the frozen-lockfile error
BailoutFrozen ==
  /\ pc = "bailout"
  /\ Decision = "frozenLockfileError"
  /\ Returned("failed")
  /\ error' = "frozenLockfileError"
  /\ UNCHANGED <<diskVars, config, rawFlags, runs, kind, flags, lockfile, request, resolver, flattened, writes, bailout, repeat, hydrateFetch, fr, pr, interrupted, up, rn, nf>>

\* BailoutUpToDate with init ignoring the value bailout returns: the run
\* goes on to step 2.
BailoutUpToDateIgnored ==
  /\ pc = "bailout"
  /\ Decision = "upToDate"
  /\ Returned("fetch")
  /\ bailout' = "upToDate"
  /\ UNCHANGED <<diskVars, config, rawFlags, runs, kind, flags, lockfile, request, resolver, flattened, writes, error, repeat, hydrateFetch, fr, pr, interrupted, up, rn, nf>>

\* lines 319-322 and 453-455: up to date, init returns
BailoutUpToDate ==
  /\ pc = "bailout"
  /\ Decision = "upToDate"
  /\ Returned("done")
  /\ bailout' = "upToDate"
  /\ UNCHANGED <<diskVars, config, rawFlags, runs, kind, flags, lockfile, request, resolver, flattened, writes, error, repeat, hydrateFetch, fr, pr, interrupted, up, rn, nf>>

\* lines 324-326: nothing to install
BailoutNothingToInstall ==
  /\ pc = "bailout"
  /\ Decision = "nothingToInstall"
  /\ Returned("emptyFolders")
  /\ bailout' = "nothingToInstall"
  /\ UNCHANGED <<diskVars, config, rawFlags, runs, kind, flags, lockfile, request, resolver, flattened, writes, error, repeat, hydrateFetch, fr, pr, interrupted, up, rn, nf>>


\* createEmptyManifestFolders (lines 338-348), then line 327
CreateEmptyManifestFolders ==
  /\ pc = "emptyFolders"
  /\ IF config.modulesFolder \/ request.rootManifestRegistries = <<>>
     THEN UNCHANGED <<calls, completed, writes>> /\ pc' = "save"
     ELSE writes' = writes \cup {"folder"} /\ Returned("save")
  /\ UNCHANGED <<diskVars, config, rawFlags, runs, kind, flags, lockfile, request, resolver, flattened, error, bailout, repeat, hydrateFetch, fr, pr, interrupted, up, rn, nf>>

\* Step 2, lines 401-403: markIgnored, then fetcher.init
FetchStep ==
  /\ pc = "fetch"
  /\ resolver' = MarkIgnored(resolver, request.ignorePatterns)
  /\ Returned("compatibility")
  /\ UNCHANGED <<diskVars, config, rawFlags, runs, kind, flags, lockfile, request, flattened, writes, error, bailout, repeat, hydrateFetch, fr, pr, interrupted, up, rn, nf>>

\* Step 2, line 404: compatibility.init
CompatibilityStep ==
  /\ pc = "compatibility"
  /\ Returned("removeIntegrity")
  /\ UNCHANGED <<diskVars, config, rawFlags, runs, kind, flags, lockfile, request, resolver, flattened, writes, error, bailout, repeat, hydrateFetch, fr, pr, interrupted, up, rn, nf>>

\* RemoveIntegrityFile returning with the integrity file left where it is.
RemoveIntegrityFileKept ==
  /\ pc = "removeIntegrity"
  /\ Returned("link")
  /\ UNCHANGED <<diskVars, config, rawFlags, runs, kind, flags, lockfile, request, resolver, flattened, writes, error, bailout, repeat, hydrateFetch, fr, pr, interrupted, up, rn, nf>>

\* RemoveIntegrityFile without the await: the call is started and the
\* run goes on to the linker while the file is still there.
RemoveIntegrityFileNotAwaited ==
  /\ pc = "removeIntegrity"
  /\ calls' = calls \cup {AwaitedCall}
  /\ pc' = "link"
  /\ UNCHANGED <<diskVars, config, rawFlags, runs, kind, flags, lockfile, request, resolver, flattened, completed, writes, error, bailout, repeat, hydrateFetch, fr, pr, interrupted, up, rn, nf>>

\* Step 3, line 409: integrityChecker.removeIntegrityFile
RemoveIntegrityFile ==
  /\ pc = "removeIntegrity"
  /\ integrityFile' = NoIntegrityFile
  /\ writes' = writes \cup (IF integrityFile.exists THEN {"integrityRemoved"} ELSE {})
  /\ Returned("link")
  /\ UNCHANGED <<cwd, lockfileFile, mirror, config, rawFlags, runs, kind, flags, lockfile, request, resolver, flattened, error, bailout, repeat, hydrateFetch, fr, pr, interrupted, up, rn, nf>>

\* Step 3, line 411: linker.init
LinkStep ==
  /\ pc = "link"
  /\ writes' = writes \cup {"folder"}
  /\ Returned("scripts")
  /\ UNCHANGED <<diskVars, config, rawFlags, runs, kind, flags, lockfile, request, resolver, flattened, error, bailout, repeat, hydrateFetch, fr, pr, interrupted, up, rn, nf>>

\* The step after the scripts step: lines 429, 443 and 459.
AfterScripts == IF flags.har THEN "har" ELSE IF config.cleanFile THEN "clean" ELSE "save"

\* Step 4, lines 422-426: scripts.init unless ignoreScripts
ScriptsStep ==
  /\ pc = "scripts"
  /\ IF flags.ignoreScripts
     THEN UNCHANGED <<calls, completed>> /\ pc' = AfterScripts
     ELSE Returned(AfterScripts)
  /\ UNCHANGED <<diskVars, config, rawFlags, runs, kind, flags, lockfile, request, resolver, flattened, writes, error, bailout, repeat, hydrateFetch, fr, pr, interrupted, up, rn, nf>>

\* Step 5, line 439: requestManager.saveHar
HarStep ==
  /\ pc = "har"
  /\ writes' = writes \cup {"har"}
  /\ Returned(IF config.cleanFile THEN "clean" ELSE "save")
  /\ UNCHANGED <<diskVars, config, rawFlags, runs, kind, flags, lockfile, request, resolver, flattened, error, bailout, repeat, hydrateFetch, fr, pr, interrupted, up, rn, nf>>

\* Step 6, line 446: clean
CleanStep ==
  /\ pc = "clean"
  /\ writes' = writes \cup {"folder"}
  /\ Returned("save")
  /\ UNCHANGED <<diskVars, config, rawFlags, runs, kind, flags, lockfile, request, resolver, flattened, error, bailout, repeat, hydrateFetch, fr, pr, interrupted, up, rn, nf>>

(***************************************************************************)
(* Install.saveLockfileAndIntegrity (lines 596-632), called at line 459    *)
(* with topLevelPatterns and at line 327 with bailout's patterns.          *)
(***************************************************************************)
SavePatterns == IF bailout = "nothingToInstall" THEN request.usedPatterns ELSE request.patterns

\* SaveStart with the lockfile written before the integrity file is saved.
SaveStartWriteFirst ==
  /\ pc = "save"
  /\ calls' = calls \cup {"saveLockfileAndIntegrity"}
  /\ pc' = IF LockfileWritesDisabled(flags) THEN "return"
           ELSE IF config.pruneOfflineMirror THEN "prune" ELSE "writeLockfile"
  /\ UNCHANGED <<diskVars, config, rawFlags, runs, kind, flags, lockfile, request, resolver, flattened, completed, writes, error, bailout, repeat, hydrateFetch, fr, pr, interrupted, up, rn, nf>>

\* SaveStart with the prune moved above the test of the lockfile flags.
SaveStartPruneFirst ==
  /\ pc = "save"
  /\ calls' = calls \cup {"saveLockfileAndIntegrity"}
  /\ pc' = IF config.pruneOfflineMirror THEN "prune"
           ELSE IF LockfileWritesDisabled(flags) THEN "return" ELSE "saveIntegrity"
  /\ UNCHANGED <<diskVars, config, rawFlags, runs, kind, flags, lockfile, request, resolver, flattened, completed, writes, error, bailout, repeat, hydrateFetch, fr, pr, interrupted, up, rn, nf>>

\* lines 598-606
SaveStart ==
  /\ pc = "save"
  /\ calls' = calls \cup {"saveLockfileAndIntegrity"}
  /\ pc' = IF LockfileWritesDisabled(flags) THEN "return"
           ELSE IF config.pruneOfflineMirror THEN "prune" ELSE "saveIntegrity"
  /\ UNCHANGED <<diskVars, config, rawFlags, runs, kind, flags, lockfile, request, resolver, flattened, completed, writes, error, bailout, repeat, hydrateFetch, fr, pr, interrupted, up, rn, nf>>

\* line 605: pruneOfflineMirror(lockfileBasedOnResolver)
PruneStep ==
  /\ pc = "prune"
  /\ mirror' = PruneOfflineMirror(config.offlineMirror, mirror, GetLockfile(resolver))
  /\ writes' = writes \cup (IF mirror' # mirror THEN {"mirror"} ELSE {})
  /\ Returned("saveIntegrity")
  /\ UNCHANGED <<cwd, lockfileFile, integrityFile, config, rawFlags, runs, kind, flags, lockfile, request, resolver, flattened, error, bailout, repeat, hydrateFetch, fr, pr, interrupted, up, rn, nf>>

\* fs.walk or an fs.unlink of pruneOfflineMirror fails: the files unlinked
\* before that are gone.
PruneFails ==
  /\ pc = "prune"
  /\ config.offlineMirror
  /\ \E left \in SUBSET mirror :
       /\ PruneOfflineMirror(config.offlineMirror, mirror, GetLockfile(resolver)) \subseteq left
       /\ mirror' = left
  /\ writes' = writes \cup (IF mirror' # mirror THEN {"mirror"} ELSE {})
  /\ calls' = calls \cup {AwaitedCall}
  /\ pc' = "failed"
  /\ error' = "collaborator"
  /\ UNCHANGED <<cwd, lockfileFile, integrityFile, config, rawFlags, runs, kind, flags, lockfile, request, resolver, flattened, completed, bailout, repeat, hydrateFetch, fr, pr, interrupted, up, rn, nf>>

\* lines 609-622: integrityChecker.save, then the test that skips the write
SaveIntegrityStep ==
  /\ pc = "saveIntegrity"
  /\ integrityFile' = IntegritySave(SavePatterns, GetLockfile(resolver), flags)
  /\ writes' = writes \cup {"integrity"}
  /\ Returned(IF SkipLockfileWrite(flags, SavePatterns, GetLockfile(resolver), lockfile)
              THEN "return" ELSE "writeLockfile")
  /\ UNCHANGED <<cwd, lockfileFile, mirror, config, rawFlags, runs, kind, flags, lockfile, request, resolver, flattened, error, bailout, repeat, hydrateFetch, fr, pr, interrupted, up, rn, nf>>

\* lines 625-631: the lockfile file is written
WriteLockfileStep ==
  /\ pc = "writeLockfile"
  /\ lockfileFile' = [exists |-> TRUE, cache |-> GetLockfile(resolver)]
  /\ writes' = writes \cup {"lockfile"}
  /\ Returned("return")
  /\ UNCHANGED <<cwd, integrityFile, mirror, config, rawFlags, runs, kind, flags, lockfile, request, resolver, flattened, error, bailout, repeat, hydrateFetch, fr, pr, interrupted, up, rn, nf>>

\* maybeOutputUpdate with the hint output whether or not the task set it.
MaybeOutputUpdateAlways(check) == [check EXCEPT !.hint = TRUE]

\* this.maybeOutputUpdate() at line 460: the method of line 736 does
\* nothing, the one assigned at line 715 outputs the hint.
MaybeOutputUpdate(check) == [check EXCEPT !.hint = @ \/ check.armed]

\* saveLockfileAndIntegrity returns: bailout returns true (line 328), or
\* lines 460-462 end init.
ReturnStep ==
  /\ pc = "return"
  /\ calls' = calls \cup (IF bailout = "none" THEN {"maybeOutputUpdate", "requestManager.clearCache"} ELSE {})
  /\ completed' = completed \cup {"saveLockfileAndIntegrity"}
  /\ up' = IF bailout = "none" THEN MaybeOutputUpdate(up) ELSE up
  /\ pc' = "done"
  /\ UNCHANGED <<diskVars, config, rawFlags, runs, kind, flags, lockfile, request, resolver, flattened, writes, error, bailout, repeat, hydrateFetch, fr, pr, interrupted, rn, nf>>

(***************************************************************************)
(* Install.hydrate (lines 641-666)                                         *)
(***************************************************************************)
StartHydrate ==
  /\ Idle
  /\ runs < MaxRuns
  /\ \E ignoreUnusedPatterns \in BOOLEAN : Construct("hydrate", ignoreUnusedPatterns)
  /\ hydrateFetch' \in BOOLEAN
  /\ repeat' = FALSE
  /\ interrupted' = FALSE
  /\ up' = [up EXCEPT !.task = "none", !.armed = FALSE, !.hint = FALSE]
  /\ UNCHANGED <<diskVars, config, rawFlags, fr, pr, rn, nf>>

\* lines 647-649
HydrateMarkIgnored ==
  /\ pc = "hydrateMark"
  /\ resolver' = MarkIgnored(resolver, request.ignorePatterns)
  /\ pc' = IF hydrateFetch THEN "hydrateFetch" ELSE "done"
  /\ UNCHANGED <<diskVars, config, rawFlags, runs, kind, flags, lockfile, request, flattened, calls, completed, writes, error, bailout, repeat, hydrateFetch, fr, pr, interrupted, up, rn, nf>>

\* line 651
HydrateFetchStep ==
  /\ pc = "hydrateFetch"
  /\ Returned("hydrateCompatibility")
  /\ UNCHANGED <<diskVars, config, rawFlags, runs, kind, flags, lockfile, request, resolver, flattened, writes, error, bailout, repeat, hydrateFetch, fr, pr, interrupted, up, rn, nf>>

\* line 652
HydrateCompatibilityStep ==
  /\ pc = "hydrateCompatibility"
  /\ Returned("hydrateExpand")
  /\ UNCHANGED <<diskVars, config, rawFlags, runs, kind, flags, lockfile, request, resolver, flattened, writes, error, bailout, repeat, hydrateFetch, fr, pr, interrupted, up, rn, nf>>

\* lines 655-662: the manifests are read from the cache and updated
HydrateExpandStep ==
  /\ pc = "hydrateExpand"
  /\ Returned("done")
  /\ UNCHANGED <<diskVars, config, rawFlags, runs, kind, flags, lockfile, request, resolver, flattened, writes, error, bailout, repeat, hydrateFetch, fr, pr, interrupted, up, rn, nf>>

Next ==
  \/ StartInit
  \/ ResolveStep
  \/ FlattenStep
  \/ SaveRootManifests
  \/ BailoutFalse
  \/ BailoutFrozen
  \/ BailoutUpToDate
  \/ BailoutNothingToInstall
  \/ CreateEmptyManifestFolders
  \/ FetchStep
  \/ CompatibilityStep
  \/ RemoveIntegrityFile
  \/ LinkStep
  \/ ScriptsStep
  \/ HarStep
  \/ CleanStep
  \/ SaveStart
  \/ PruneStep
  \/ PruneFails
  \/ SaveIntegrityStep
  \/ WriteLockfileStep
  \/ ReturnStep
  \/ StartHydrate
  \/ HydrateMarkIgnored
  \/ HydrateFetchStep
  \/ HydrateCompatibilityStep
  \/ HydrateExpandStep
  \/ CollaboratorFails

Spec == Init /\ [][Next]_vars

(***************************************************************************)
(* The update check (lines 672-730): checkUpdate starts _checkUpdate       *)
(* without awaiting it, so the task's steps interleave with those of init. *)
(***************************************************************************)
\* The flags of the runs with the update check on.
UpdateRawFlags ==
  {NoRawFlags, [NoRawFlags EXCEPT !.har = "true"], [NoRawFlags EXCEPT !.frozenLockfile = "true"]}

InitUpdate ==
  /\ \E sc \in Scenarios :
       /\ config = sc.config
       /\ cwd = [r \in Registries |-> IF r = "npm" THEN sc.manifest ELSE NoManifest]
  /\ rawFlags \in UpdateRawFlags
  /\ lockfileFile \in InitialLockfileFiles
  /\ integrityFile = NoIntegrityFile
  /\ mirror = IF config.pruneOfflineMirror THEN InitialMirror ELSE {}
  /\ InitRun
  /\ fr = NoCall
  /\ pr = NoCall
  /\ rn = NoCall
  /\ nf = NoCall
  /\ \E remote \in RemoteVersions : up = [NoUpdateCheck EXCEPT !.enabled = TRUE, !.remote = remote]

\* _checkUpdate, lines 700-729: the request returns, the check time is
\* saved for a valid version, and maybeOutputUpdate is assigned for a newer
\* one.
CheckUpdateResolves ==
  /\ up.task = "pending"
  /\ up' = IF ~up.remote.valid THEN [up EXCEPT !.task = "done"]
           ELSE [up EXCEPT !.task = "done", !.enabled = FALSE,
                           !.armed = SemverGt(up.remote.version, RunningVersion)]
  /\ UNCHANGED <<diskVars, config, rawFlags, runVars, fr, pr, interrupted, rn, nf>>

\* _checkUpdate, line 700: the request fails; line 694 swallows the error.
CheckUpdateFails ==
  /\ up.task = "pending"
  /\ up' = [up EXCEPT !.task = "failed"]
  /\ UNCHANGED <<diskVars, config, rawFlags, runVars, fr, pr, interrupted, rn, nf>>

NextUpdate == Next \/ CheckUpdateResolves \/ CheckUpdateFails

SpecUpdate == InitUpdate /\ [][NextUpdate]_vars


(***************************************************************************)
(* fetchRequestFromCwd on its own: every small root manifest, with and     *)
(* without a second registry's manifest, a bare-name lock, production.     *)
(***************************************************************************)
DepMaps == UNION {[D -> Ranges] : D \in SUBSET Names}

FetchLockfiles ==
  {NoLockfile,
   [loaded |-> TRUE, cache |-> <<"a">> :> [version |-> "1", resolved |-> RegistryResolved("a", "1")]],
   [loaded |-> TRUE, cache |-> <<"a", "@", "1">> :> [version |-> "1", resolved |-> RegistryResolved("a", "1")]]}

\* What cwd holds: the npm manifest alone, the yarn manifest alone, or both.
FetchCwds(json) ==
  LET other == [exists |-> TRUE, dependencies |-> "b" :> "2", devDependencies |-> EmptyMap,
                optionalDependencies |-> EmptyMap, resolutions |-> "c" :> "1", flat |-> TRUE]
  IN {[r \in Registries |-> IF r = "npm" THEN json ELSE NoManifest],
      [r \in Registries |-> IF r = "yarn" THEN json ELSE NoManifest],
      [r \in Registries |-> IF r = "npm" THEN json ELSE other]}

FetchInputs ==
  {[cwd |-> c, lockfile |-> lf, production |-> prod, ignoreOptional |-> io,
    excludeNames |-> ex, ignoreUnusedPatterns |-> iu] :
     c \in UNION {FetchCwds([exists |-> TRUE, dependencies |-> d, devDependencies |-> v,
                             optionalDependencies |-> o, resolutions |-> EmptyMap, flat |-> FALSE]) :
                    d \in DepMaps, v \in DepMaps, o \in DepMaps},
     lf \in FetchLockfiles, prod \in BOOLEAN, io \in BOOLEAN,
     ex \in {{}, {"b"}}, iu \in BOOLEAN}

\* The working directory and the run are left out of the calls on their own.
InitNoRun ==
  /\ config = DefaultConfig
  /\ rawFlags = NoRawFlags
  /\ cwd = [r \in Registries |-> NoManifest]
  /\ lockfileFile = NoLockfileFile
  /\ integrityFile = NoIntegrityFile
  /\ mirror = {}
  /\ InitRun
  /\ up = NoUpdateCheck

InitFetch ==
  /\ InitNoRun
  /\ \E in \in FetchInputs : fr = [phase |-> "input", input |-> in, output |-> EmptyRequest(EmptyMap)]
  /\ pr = NoCall
  /\ rn = NoCall
  /\ nf = NoCall

FetchCall ==
  /\ fr.phase = "input"
  /\ fr' = [fr EXCEPT !.phase = "done",
                      !.output = FetchRequestFromCwd(fr.input.cwd, fr.input.lockfile,
                                   fr.input.production, fr.input.ignoreOptional, EmptyMap,
                                   fr.input.excludeNames, fr.input.ignoreUnusedPatterns)]
  /\ UNCHANGED <<diskVars, config, rawFlags, runVars, pr, interrupted, up, rn, nf>>

SpecFetch == InitFetch /\ [][FetchCall]_vars

(***************************************************************************)
(* pruneOfflineMirror on its own: lockfile images over two patterns with   *)
(* resolved fields of every shape, and small mirrors.                      *)
(***************************************************************************)
ResolvedSamples ==
  {<<>>,
   RegistryResolved("a", "1"),
   <<"x">>,
   <<"a", "1", "#", "h">>,
   <<"d", "/", "x", "#", "h", "/", "y">>}

PrunePatterns == {<<"a", "@", "1">>, <<"b", "@", "1">>}

PruneImages ==
  UNION {[D -> [version : {"1"}, resolved : ResolvedSamples]] : D \in SUBSET PrunePatterns}

MirrorFileSamples == {<<"a", "1">>, <<"x">>, <<"y">>, <<"sub", "/", "x">>, <<"h">>}

PruneInputs ==
  {[lockfile |-> img, files |-> fs, mirrorPath |-> mp] :
     img \in PruneImages,
     fs \in {F \in SUBSET MirrorFileSamples : Cardinality(F) <= MaxMirrorFiles},
     mp \in BOOLEAN}

InitPrune ==
  /\ InitNoRun
  /\ fr = NoCall
  /\ rn = NoCall
  /\ nf = NoCall
  /\ \E in \in PruneInputs : pr = [phase |-> "input", input |-> in, remaining |-> in.files]

PruneCall ==
  /\ pr.phase = "input"
  /\ pr' = [pr EXCEPT !.phase = "done",
                      !.remaining = PruneOfflineMirror(pr.input.mirrorPath, pr.input.files,
                                                       pr.input.lockfile)]
  /\ UNCHANGED <<diskVars, config, rawFlags, runVars, fr, interrupted, up, rn, nf>>

SpecPrune == InitPrune /\ [][PruneCall]_vars

(***************************************************************************)
(* normalizeFlags on its own: every truthiness of the five config options  *)
(* that force a flag, with every raw value of the five flags.              *)
(***************************************************************************)
ForcingOptions == {"ignoreScripts", "ignorePlatform", "ignoreEngines", "ignoreOptional", "force"}

FlagInputs ==
  {[options |-> o, rawFlags |-> [f \in RawFlagNames |-> IF f \in ForcingOptions THEN r[f] ELSE "undefined"]] :
     o \in [ForcingOptions -> BOOLEAN], r \in [ForcingOptions -> RawValues]}

InitFlags ==
  /\ InitNoRun
  /\ fr = NoCall
  /\ pr = NoCall
  /\ rn = NoCall
  /\ \E in \in FlagInputs : nf = [phase |-> "input", input |-> in, output |-> NormalizeFlags(NoOptions, NoRawFlags)]

FlagsCall ==
  /\ nf.phase = "input"
  /\ nf' = [nf EXCEPT !.phase = "done", !.output = NormalizeFlags(nf.input.options, nf.input.rawFlags)]
  /\ UNCHANGED <<diskVars, config, rawFlags, runVars, fr, pr, interrupted, up, rn>>

SpecFlags == InitFlags /\ [][FlagsCall]_vars

(***************************************************************************)
(* run (lines 751-792) and wrapLifecycle (lines 794-807), one action per   *)
(* awaited call.  The install body is new Install(...).init(), taken here  *)
(* as one call that returns or throws.                                     *)
(***************************************************************************)
\* The save-* flags in the order run tests them (lines 766-780) and the
\* option each adds to the example arguments.
SaveFlagNames == <<"saveDev", "savePeer", "saveOptional", "saveExact", "saveTilde">>

SaveFlagOption(f) ==
  CASE f = "saveDev" -> "--dev"
    [] f = "savePeer" -> "--peer"
    [] f = "saveOptional" -> "--optional"
    [] f = "saveExact" -> "--exact"
    [] f = "saveTilde" -> "--tilde"

\* lines 765-780: args.slice() with the options pushed
ExampleArgs(args, cmdFlags) ==
  LET set == SelectSeq(SaveFlagNames, LAMBDA f : Truthy(cmdFlags[f]))
  IN args \o [i \in 1..Len(set) |-> SaveFlagOption(set[i])]

\* RenamedCommand without the test of flags.global (lines 782-784).
RenamedCommandAlwaysAdd(args, cmdFlags) == <<"add">> \o ExampleArgs(args, cmdFlags)

\* lines 781-785: the command and the arguments of the message
RenamedCommand(args, cmdFlags) ==
  <<IF Truthy(cmdFlags.global) THEN "global add" ELSE "add">> \o ExampleArgs(args, cmdFlags)

\* The steps wrapLifecycle awaits, in order.
LifecycleScripts == {"preinstall", "install", "postinstall", "prepublish", "prepare"}

\* LifecycleNext with the production test of line 803 left out.
LifecycleNextAlwaysPublish(step, production) ==
  CASE step = "preinstall" -> "factory"
    [] step = "factory" -> "install"
    [] step = "install" -> "postinstall"
    [] step = "postinstall" -> "prepublish"
    [] step = "prepublish" -> "prepare"
    [] step = "prepare" -> "done"

\* Where wrapLifecycle goes when the step it awaits returns.
LifecycleNext(step, production) ==
  CASE step = "preinstall" -> "factory"
    [] step = "factory" -> "install"
    [] step = "install" -> "postinstall"
    [] step = "postinstall" -> IF production THEN "done" ELSE "prepublish"
    [] step = "prepublish" -> "prepare"
    [] step = "prepare" -> "done"

CommandFlagNames == {"lockfile", "global"} \cup Range(SaveFlagNames)

CommandArgs == {<<>>, <<"foo">>, <<"foo", "bar">>}

CommandInputs ==
  {[args |-> a, flags |-> f, production |-> prod] :
     a \in CommandArgs, prod \in BOOLEAN,
     f \in {g \in [CommandFlagNames -> {"true", "undefined", "false"}] : g.lockfile # "true"}}

InitCommand ==
  /\ InitNoRun
  /\ fr = NoCall
  /\ pr = NoCall
  /\ nf = NoCall
  /\ \E in \in CommandInputs :
       rn = [pc |-> "start", input |-> in, log |-> <<>>, constructed |-> FALSE,
             initCalled |-> FALSE, error |-> "none", message |-> <<>>]

RunUnchanged == UNCHANGED <<diskVars, config, rawFlags, runVars, fr, pr, interrupted, up, nf>>

\* lines 757-762: new Lockfile(), or Lockfile.fromDirectory returns
RunLoadLockfile ==
  /\ rn.pc = "start"
  /\ rn' = [rn EXCEPT !.pc = "args"]
  /\ RunUnchanged

\* line 761: Lockfile.fromDirectory throws
RunLockfileFails ==
  /\ rn.pc = "start"
  /\ rn.input.flags.lockfile # "false"
  /\ rn' = [rn EXCEPT !.pc = "failed", !.error = "lockfile"]
  /\ RunUnchanged

\* lines 764-786: positional arguments are refused
RunRejectArgs ==
  /\ rn.pc = "args"
  /\ Len(rn.input.args) > 0
  /\ rn' = [rn EXCEPT !.pc = "failed", !.error = "installCommandRenamed",
                      !.message = RenamedCommand(rn.input.args, rn.input.flags)]
  /\ RunUnchanged

\* line 788: wrapLifecycle is called
RunWrapLifecycle ==
  /\ rn.pc = "args"
  /\ Len(rn.input.args) = 0
  /\ rn' = [rn EXCEPT !.pc = "preinstall"]
  /\ RunUnchanged

\* config.executeLifecycleScript(name) returns
ExecuteLifecycleScript ==
  /\ rn.pc \in LifecycleScripts
  /\ rn' = [rn EXCEPT !.log = Append(@, rn.pc),
                      !.pc = LifecycleNext(rn.pc, rn.input.production)]
  /\ RunUnchanged

\* config.executeLifecycleScript(name) throws
LifecycleScriptFails ==
  /\ rn.pc \in LifecycleScripts
  /\ rn' = [rn EXCEPT !.log = Append(@, rn.pc), !.pc = "failed", !.error = rn.pc]
  /\ RunUnchanged

\* lines 789-790: the install body returns
Factory ==
  /\ rn.pc = "factory"
  /\ rn' = [rn EXCEPT !.log = Append(@, "factory"), !.constructed = TRUE, !.initCalled = TRUE,
                      !.pc = LifecycleNext("factory", rn.input.production)]
  /\ RunUnchanged

\* lines 789-790: install.init throws
FactoryFails ==
  /\ rn.pc = "factory"
  /\ rn' = [rn EXCEPT !.log = Append(@, "factory"), !.constructed = TRUE, !.initCalled = TRUE,
                      !.pc = "failed", !.error = "factory"]
  /\ RunUnchanged

NextCommand ==
  \/ RunLoadLockfile
  \/ RunLockfileFails
  \/ RunRejectArgs
  \/ RunWrapLifecycle
  \/ ExecuteLifecycleScript
  \/ LifecycleScriptFails
  \/ Factory
  \/ FactoryFails

SpecRun == InitCommand /\ [][NextCommand]_vars


(***************************************************************************)
(* Properties.                                                             *)
(***************************************************************************)
\* The first call of linker.init in a run is made by this step.
LinkingBegins == "linker.init" \notin calls /\ "linker.init" \in calls'

\* C1: in every run of init that reaches the link step, whatever the flags,
\* removeIntegrityFile has returned before linker.init is started, and the
\* integrity file is absent at the moment linking begins.
C1_IntegrityRemovedBeforeLink ==
  [][LinkingBegins =>
       /\ "integrityChecker.removeIntegrityFile" \in completed
       /\ ~integrityFile.exists]_vars

\* C1 witness: linking has begun in a run that found an integrity file and
\* removed it.
C1_Witness == kind = "init" /\ "linker.init" \in calls /\ "integrityRemoved" \in writes

\* init has returned (not failed) after running the link step.
ReturnedAfterLink == kind = "init" /\ pc = "done" /\ "linker.init" \in completed

\* C2: for every flag setting, when init returns successfully after running
\* the link step, the integrity file is present.
C2_IntegrityPresentOnSuccess == ReturnedAfterLink => integrityFile.exists

\* A used pattern is missing from the lockfile of a run made with
\* frozenLockfile.
FrozenAndMissing ==
  /\ kind = "init"
  /\ flags.frozenLockfile
  /\ \E p \in Range(request.usedPatterns) : ~IsLocked(lockfile, p)

\* C3: with frozenLockfile set and a used pattern missing from the lockfile,
\* whatever the other flags and the disk, init does not return, and
\* fetcher.init, linker.init and scripts.init are never called.
C3_FrozenMissingNeverInstalls ==
  FrozenAndMissing =>
    /\ calls \cap {"fetcher.init", "linker.init", "scripts.init"} = {}
    /\ pc # "done"

\* C4: when init fails with the frozen-lockfile error nothing was
\* written in the working directory, in flat mode as in non-flat mode.
C4_FrozenErrorWritesNothing == error = "frozenLockfileError" => writes = {}

C6_UpToDateReturnsAfterStepOne ==
  bailout = "upToDate" =>
    /\ pc = "done"
    /\ calls \cap {"integrityChecker.removeIntegrityFile", "fetcher.init", "linker.init",
                   "scripts.init", "saveLockfileAndIntegrity", "integrityChecker.save",
                   "fs.writeFilePreservingEol"} = {}
    /\ writes \cap {"integrity", "integrityRemoved", "lockfile"} = {}

\* C6 witness: a run that bailed out as up to date.
C6_Witness == kind = "init" /\ bailout = "upToDate" /\ pc = "done"

C8_HydrateWritesNothing ==
  kind = "hydrate" =>
    /\ writes = {}
    /\ calls \cap {"config.saveRootManifests", "fs.writeFilePreservingEol",
                   "integrityChecker.save", "integrityChecker.removeIntegrityFile",
                   "linker.init"} = {}

\* C9 as stated: a file of the offline mirror is deleted only inside
\* saveLockfileAndIntegrity and only after integrityChecker.save has
\* returned in that call.
C9_MirrorPrunedAfterIntegritySave ==
  [][mirror' # mirror =>
       /\ "saveLockfileAndIntegrity" \in calls
       /\ "integrityChecker.save" \in completed]_vars

\* C9 amended: a file of the offline mirror is deleted only inside
\* saveLockfileAndIntegrity, by its call of pruneOfflineMirror, which is
\* made before integrityChecker.save is started in that call, and only when
\* lockfile writes are enabled and config.pruneOfflineMirror is set.
C9_MirrorPrunedBeforeIntegritySave ==
  [][mirror' # mirror =>
       /\ pc = "prune"
       /\ "saveLockfileAndIntegrity" \in calls
       /\ "saveLockfileAndIntegrity" \notin completed
       /\ "integrityChecker.save" \notin calls
       /\ flags.lockfile /\ ~flags.pureLockfile
       /\ config.pruneOfflineMirror]_vars

\* C9 witness: a run deleted mirror files and then saved the integrity file.
C9_Witness == "mirror" \in writes /\ "integrityChecker.save" \in completed

\* The basename of a resolved field with its '#<hash>' suffix stripped.
TarballName(resolved) == Basename(SplitHashFirst(resolved))

\* C10: after pruneOfflineMirror(lockfile) with a mirror path configured,
\* every file left under the mirror has the basename of some lockfile
\* entry's resolved field, '#<hash>' stripped, and no file with such a
\* basename was deleted.
C10_PruneKeepsExactlyRequired ==
  (pr.phase = "done" /\ pr.input.mirrorPath) =>
    \A f \in pr.input.files :
      f \in pr.remaining <=>
        \E d \in DOMAIN pr.input.lockfile :
          /\ pr.input.lockfile[d].resolved # <<>>
          /\ Basename(f) = TarballName(pr.input.lockfile[d].resolved)

\* C10 witness: a prune that deleted one file and kept another, in a
\* subdirectory, whose name a resolved field with a hash gives.
C10_Witness ==
  /\ pr.phase = "done" /\ pr.input.mirrorPath
  /\ pr.remaining # pr.input.files
  /\ <<"sub", "/", "x">> \in pr.remaining

\* C11: in every call of saveLockfileAndIntegrity that writes the lockfile
\* file, integrityChecker.save has returned before the write starts; the
\* lockfile file is never written in a run that did not write the integrity
\* file first.
C11_IntegritySavedBeforeLockfileWrite ==
  [][("fs.writeFilePreservingEol" \in calls' \/ lockfileFile' # lockfileFile) =>
       /\ "integrityChecker.save" \in completed
       /\ "integrity" \in writes
       /\ integrityFile.exists]_vars

\* C11 witness: a run wrote the integrity file and then the lockfile file.
C11_Witness ==
  /\ pc = "done" /\ "lockfile" \in writes /\ "integrity" \in writes
  /\ lockfileFile.exists

\* C12: an init that failed after removeIntegrityFile returned and before
\* integrityChecker.save returned leaves no integrity file, and the init
\* that follows it does not bail out: whenever its bailout returns, it
\* returns false, and step 2 (fetch) and step 3 (link) run again.
C12_InterruptedInstallIsRedone ==
  /\ Interrupted => ~integrityFile.exists
  /\ (kind = "init" /\ interrupted) =>
       /\ bailout = "none"
       /\ ("integrityChecker.check" \in completed /\ error # "frozenLockfileError") =>
            "fetcher.init" \in calls \/ pc = "fetch"
       /\ pc \notin {"resolve", "flatten", "saveRootManifests", "bailout", "failed"} =>
            "fetcher.init" \in calls \/ pc = "fetch"
       /\ pc = "done" => {"fetcher.init", "linker.init"} \subseteq completed

\* C12 witness: the init after an interrupted one, whose integrity check ran
\* against a loaded lockfile, has fetched and linked again and returned.
C12_Witness ==
  /\ kind = "init" /\ interrupted /\ pc = "done"
  /\ "integrityChecker.check" \in completed
  /\ {"fetcher.init", "linker.init"} \subseteq completed
\* C13: for each of the config options ignore-scripts, ignore-platform,
\* ignore-engines, ignore-optional and force: when the option is truthy the
\* flag normalizeFlags returns is true whatever the raw flag, and when it is
\* falsy the flag is the truthiness of the raw flag.
C13_ConfigForcesFlagsOn ==
  nf.phase = "done" =>
    \A o \in ForcingOptions :
      /\ nf.input.options[o] => nf.output[o] = TRUE
      /\ ~nf.input.options[o] => (nf.output[o] <=> nf.input.rawFlags[o] \in {"true", "1"})

\* C13 witness: normalizeFlags returned force on from the config alone, the
\* raw flag being false, and ignoreScripts on from the raw flag alone.
C13_Witness ==
  /\ nf.phase = "done"
  /\ nf.input.options.force /\ nf.input.rawFlags.force = "false" /\ nf.output.force
  /\ ~nf.input.options.ignoreScripts /\ nf.input.rawFlags.ignoreScripts = "1" /\ nf.output.ignoreScripts
\* The root manifests of two or more registries exist in the cwd given to
\* fetchRequestFromCwd.
SeveralRootManifests == Cardinality({r \in Registries : fr.input.cwd[r].exists}) >= 2

\* C14: when the root manifests of two or more registries exist in cwd,
\* fetchRequestFromCwd reads only the manifest of the first registry in
\* enumeration order: every request carries that registry, the patterns and
\* the resolutions are those of that manifest alone, and
\* rootManifestRegistries holds that one registry.
C14_FirstRegistryWins ==
  (fr.phase = "done" /\ SeveralRootManifests) =>
    LET first == RegistryOrder[1]
        json == fr.input.cwd[first]
        maps == {json.dependencies, json.devDependencies, json.optionalDependencies}
    IN /\ json.exists
       /\ \A i \in DOMAIN fr.output.requests : fr.output.requests[i].registry = first
       /\ \A i \in DOMAIN fr.output.patterns :
            LET pattern == fr.output.patterns[i]
            IN \E m \in maps :
                 /\ pattern[1] \in DOMAIN m
                 /\ Len(pattern) = 3 => pattern[3] = m[pattern[1]]
       /\ fr.output.resolutions = json.resolutions
       /\ fr.output.manifest = json
       /\ fr.output.rootManifestRegistries = <<first>>

\* C14 witness: both manifests exist, the first registry's manifest yields
\* a request, and the dependency that only the later manifest declares is
\* not among the patterns.
C14_Witness ==
  /\ fr.phase = "done" /\ SeveralRootManifests
  /\ Len(fr.output.requests) > 0
  /\ "b" \notin DOMAIN fr.input.cwd["npm"].dependencies
  /\ "b" \in DOMAIN fr.input.cwd["yarn"].dependencies
  /\ <<"b", "@", "2">> \notin Range(fr.output.patterns)
\* A step in which markIgnored(ignorePatterns) runs: line 401 of init, with
\* fetcher.init after it, or line 647 of hydrate.
MarkIgnoredRuns ==
  \/ pc = "fetch" /\ pc' = "compatibility"
  \/ pc = "hydrateMark" /\ pc' \in {"hydrateFetch", "done"}

\* C15: markIgnored sets ignore on the reference of an ignore pattern if and
\* only if that reference has exactly one requester; a reference with two
\* or more requesters is never marked, the references of other patterns are
\* left as they are, and no other step of the orchestrator marks one.
C15_IgnoredOnlyWithOneRequester ==
  [][/\ MarkIgnoredRuns =>
          /\ \A k \in DOMAIN resolver.manifests :
               k \in resolver'.ignore <=>
                 \/ k \in resolver.ignore
                 \/ /\ resolver.requests[k] = 1
                    /\ \E p \in Range(request.ignorePatterns) : resolver.patterns[p] = k
          /\ resolver' = [resolver EXCEPT !.ignore = resolver'.ignore]
     /\ ~(resolver'.ignore \subseteq resolver.ignore) => MarkIgnoredRuns]_vars

\* C15 witness: markIgnored has run on an ignore pattern whose reference has
\* two requesters, and the reference is not ignored.
C15_Witness ==
  /\ pc = "compatibility"
  /\ \E p \in Range(request.ignorePatterns) :
       /\ resolver.requests[resolver.patterns[p]] >= 2
       /\ resolver.patterns[p] \notin resolver.ignore
\* The versions of a name that are resolved and not ignored.
CandidateVersions(name) ==
  {k[2] : k \in {i \in GetAllInfoForPackageName(resolver, name) : i \notin resolver.ignore}}

\* flatten is about to run in flat mode.
FlattenBegins == pc = "flatten" /\ flags.flat

\* What flatten returns for the answers reporter.select would give.
FlattenOutcomes ==
  {fl \in {Flatten(flags, resolver, request.resolutions, request.patterns, answers) :
             answers \in [AllNames -> Ranges]} : fl.answered}

\* C16 as stated: in flat mode, when the resolutions have an entry for every
\* name with more than one non-ignored resolved version, flatten never calls
\* reporter.select and returns the same patterns on every run.
C16_ResolutionsEntryAvoidsPrompt ==
  (/\ FlattenBegins
   /\ \A name \in AllNames :
        Cardinality(CandidateVersions(name)) > 1 => name \in DOMAIN request.resolutions)
  => /\ \A fl \in FlattenOutcomes : fl.selected = {}
     /\ \A f1, f2 \in FlattenOutcomes : f1.flattened = f2.flattened

\* C16 amended: the same, when the entry of every such name is one of the
\* name's non-ignored resolved versions.
C16_CandidateResolutionAvoidsPrompt ==
  (/\ FlattenBegins
   /\ \A name \in AllNames :
        Cardinality(CandidateVersions(name)) > 1 =>
          /\ name \in DOMAIN request.resolutions
          /\ request.resolutions[name] \in CandidateVersions(name))
  => /\ \A fl \in FlattenOutcomes : fl.selected = {}
     /\ \A f1, f2 \in FlattenOutcomes : f1.flattened = f2.flattened

\* C16 witness: flatten has run in flat mode on two versions of c with the
\* resolution c: 2 in the root manifest; it did not ask, and the pattern
\* c@1 now resolves to version 2.
C16_Witness ==
  /\ flags.flat /\ "resolver.init" \in completed
  /\ pc \in {"saveRootManifests", "bailout", "hydrateMark"}
  /\ "reporter.select" \notin calls
  /\ <<"c", "@", "1">> \in DOMAIN resolver.patterns
  /\ resolver.patterns[<<"c", "@", "1">>] = <<"c", "2">>
\* The steps of wrapLifecycle in the order the claim gives, the install
\* body being "factory".
ClaimedLifecycle ==
  <<"preinstall", "factory", "install", "postinstall">>
    \o (IF rn.input.production THEN <<>> ELSE <<"prepublish", "prepare">>)

\* C17: wrapLifecycle runs preinstall, the install body, install,
\* postinstall and, only when not in production mode, prepublish then
\* prepare, in that order; when a step fails (preinstall, so that the body
\* never runs, or any other) no later step runs and the failure reaches the
\* caller.
C17_LifecycleOrder ==
  /\ Len(rn.log) <= Len(ClaimedLifecycle)
  /\ rn.log = SubSeq(ClaimedLifecycle, 1, Len(rn.log))
  /\ rn.pc = "done" => rn.log = ClaimedLifecycle /\ rn.error = "none"
  /\ rn.error \in LifecycleScripts \cup {"factory"} =>
       /\ rn.pc = "failed"
       /\ rn.log[Len(rn.log)] = rn.error
  /\ (rn.pc = "failed" /\ rn.log # <<>>) => rn.error = rn.log[Len(rn.log)]
  /\ rn.initCalled <=> "factory" \in Range(rn.log)

\* C17 witness: outside production mode all six steps have run.
C17_Witness ==
  /\ rn.pc = "done" /\ ~rn.input.production
  /\ rn.log = <<"preinstall", "factory", "install", "postinstall", "prepublish", "prepare">>

\* C18: run with positional arguments fails with the install-renamed error
\* (once the lockfile is loaded) before any lifecycle script runs and before
\* an Install is constructed or init is called; the message suggests
\* 'global add' when flags.global is set and 'add' otherwise, then the
\* arguments, then one option per set save-* flag.
C18_PositionalArgsRefused ==
  Len(rn.input.args) > 0 =>
    /\ rn.log = <<>> /\ ~rn.constructed /\ ~rn.initCalled
    /\ rn.pc \in {"start", "args", "failed"}
    /\ rn.pc = "failed" => rn.error \in {"installCommandRenamed", "lockfile"}
    /\ rn.error = "installCommandRenamed" =>
         LET n == Len(rn.input.args)
             options == SubSeq(rn.message, n + 2, Len(rn.message))
             wanted == {SaveFlagOption(f) : f \in {g \in Range(SaveFlagNames) : rn.input.flags[g] = "true"}}
         IN /\ rn.message[1] = (IF rn.input.flags.global = "true" THEN "global add" ELSE "add")
            /\ SubSeq(rn.message, 2, n + 1) = rn.input.args
            /\ Range(options) = wanted
            /\ Len(options) = Cardinality(wanted)

\* C18 witness: 'install foo bar' with global, saveDev and saveTilde set is
\* refused with the suggestion 'global add foo bar --dev --tilde'.
C18_Witness ==
  /\ rn.pc = "failed" /\ rn.error = "installCommandRenamed"
  /\ rn.message = <<"global add", "foo", "bar", "--dev", "--tilde">>
\* init returns at line 462, having called maybeOutputUpdate at line 460.
InitCompletes == pc = "return" /\ pc' = "done" /\ bailout = "none"

\* C19 as stated: when the update check is not skipped and the version the
\* self-update URL gives is a valid semver greater than the running one, the
\* hint has been output by the time init returns successfully, in every
\* interleaving of the task with init and on every way init returns.
C19_HintOutputWhenInitReturns ==
  (/\ kind = "init" /\ pc = "done"
   /\ up.task \in {"pending", "done"}
   /\ up.remote.valid /\ SemverGt(up.remote.version, RunningVersion))
  => up.hint

\* C19 amended: the hint is output exactly when init completes without
\* bailout and the _checkUpdate task has by then assigned maybeOutputUpdate
\* for a newer version; when the task ends later, or init returns through
\* bailout, no hint is output.
C19_HintOutputOnlyIfArmedInTime ==
  [][/\ InitCompletes => (up'.hint <=> up.armed)
     /\ ~InitCompletes => (up'.hint => up.hint)
     /\ up'.armed => (up.remote.valid /\ SemverGt(up.remote.version, RunningVersion))]_vars

\* C19 witness: init completed after the task had found a newer version,
\* and the hint is out.
C19_Witness == kind = "init" /\ pc = "done" /\ up.task = "done" /\ up.hint
\* The four conditions of lines 611-622, on the patterns passed to
\* saveLockfileAndIntegrity, the candidate lockfile and the loaded lockfile.
EveryPatternLocked ==
  \A i \in 1..Len(SavePatterns) : lockfile.loaded /\ SavePatterns[i] \in DOMAIN lockfile.cache

EveryCandidateEntryAgrees ==
  \A p \in DOMAIN GetLockfile(resolver) :
    /\ lockfile.loaded /\ p \in DOMAIN lockfile.cache
    /\ lockfile.cache[p].resolved = GetLockfile(resolver)[p].resolved

\* C20: with lockfile writes enabled, saveLockfileAndIntegrity leaves the
\* lockfile file unwritten if and only if every pattern has a lock entry,
\* every entry of the candidate has an existing entry with the same resolved
\* value, patterns is non-empty and force is not set, and otherwise writes
\* the candidate to the lockfile file; with lockfile writes disabled it
\* writes neither the integrity file nor the lockfile file and does not
\* prune the mirror.
C20_LockfileUnwrittenIffFourConditions ==
  [][/\ (pc = "save" /\ pc' # pc /\ LockfileWritesDisabled(flags))
          => (pc' = "return" /\ integrityFile' = integrityFile
              /\ lockfileFile' = lockfileFile /\ mirror' = mirror)
     /\ (pc = "save" /\ pc' # pc /\ ~LockfileWritesDisabled(flags))
          => (pc' \in {"prune", "saveIntegrity"} /\ lockfileFile' = lockfileFile)
     /\ (pc = "prune" /\ pc' # pc) => lockfileFile' = lockfileFile
     /\ (pc = "saveIntegrity" /\ pc' \notin {pc, "failed"})
          => /\ lockfileFile' = lockfileFile
             /\ pc' = IF /\ EveryPatternLocked /\ EveryCandidateEntryAgrees
                         /\ Len(SavePatterns) > 0 /\ ~flags.force
                      THEN "return" ELSE "writeLockfile"
     /\ (pc = "writeLockfile" /\ pc' \notin {pc, "failed"})
          => (pc' = "return" /\ lockfileFile' = [exists |-> TRUE, cache |-> GetLockfile(resolver)])
     /\ (pc = "return" /\ pc' # pc)
          => (lockfileFile' = lockfileFile /\ integrityFile' = integrityFile /\ mirror' = mirror)]_vars

\* C20 witness: an install with lockfile writes enabled whose lockfile
\* already has every entry of the candidate: the integrity file is saved
\* and saveLockfileAndIntegrity is about to return without the write.
C20_Witness ==
  /\ kind = "init" /\ pc = "return" /\ bailout = "none"
  /\ ~LockfileWritesDisabled(flags)
  /\ "integrityChecker.save" \in completed /\ "lockfile" \notin writes
  /\ EveryPatternLocked /\ EveryCandidateEntryAgrees /\ Len(SavePatterns) > 0
\* The step of init (lines 392-448) that awaits each collaborator call.
StepOf ==
  [c \in {"resolver.init", "config.saveRootManifests", "integrityChecker.check", "fs.mkdirp"} |-> 1]
    @@ [c \in {"fetcher.init", "compatibility.init"} |-> 2]
    @@ [c \in {"integrityChecker.removeIntegrityFile", "linker.init"} |-> 3]
    @@ [c \in {"scripts.init"} |-> 4]
    @@ [c \in {"requestManager.saveHar"} |-> 5]
    @@ [c \in {"clean"} |-> 6]

\* The calls that were made and did not return.
FailedCalls == calls \ completed

\* init failed in one of its steps: in a call a step awaits, or inside
\* bailout's saveLockfileAndIntegrity (line 327), which is part of step 1.
FailedInStep ==
  /\ kind = "init" /\ pc = "failed" /\ error = "collaborator"
  /\ bailout = "nothingToInstall" \/ FailedCalls \cap DOMAIN StepOf # {}

FailedStep ==
  IF bailout = "nothingToInstall" THEN 1
  ELSE CHOOSE k \in 1..6 : \E c \in FailedCalls \cap DOMAIN StepOf : StepOf[c] = k

NoLaterStepStarted == \A c \in calls \cap DOMAIN StepOf : StepOf[c] <= FailedStep

FilesAsBeforeTheRun == writes \cap {"integrity", "integrityRemoved", "lockfile"} = {}

\* C21 as stated: when a collaborator call fails in step k of init, init
\* fails with that error, no later step is started, and
\* saveLockfileAndIntegrity, maybeOutputUpdate and clearCache are not
\* called; a failure in steps 1-2 off the nothing-to-install path leaves the
\* integrity file and the lockfile file as they were.
C21_FailedStepCallsNoSave ==
  FailedInStep =>
    /\ NoLaterStepStarted
    /\ calls \cap {"saveLockfileAndIntegrity", "maybeOutputUpdate", "requestManager.clearCache"} = {}
    /\ (FailedStep <= 2 /\ bailout # "nothingToInstall") => FilesAsBeforeTheRun

\* C21 amended: the same, except that saveLockfileAndIntegrity has been
\* called when the failure is inside the nothing-to-install path of step 1
\* (line 327), and only then; the calls of lines 459-461 are never made.
C21_FailedStepCallsNoSaveButBailout ==
  FailedInStep =>
    /\ NoLaterStepStarted
    /\ calls \cap {"maybeOutputUpdate", "requestManager.clearCache"} = {}
    /\ "saveLockfileAndIntegrity" \in calls => bailout = "nothingToInstall"
    /\ (FailedStep <= 2 /\ bailout # "nothingToInstall") => FilesAsBeforeTheRun

\* C21 witness: compatibility.init failed in step 2, after resolver.init and
\* fetcher.init returned, in a directory that has an integrity file.
C21_Witness ==
  /\ FailedInStep /\ "compatibility.init" \in FailedCalls
  /\ {"resolver.init", "fetcher.init"} \subseteq completed
  /\ integrityFile.exists
\* C22: with frozenLockfile set, a run of init that does not fail with the
\* frozen-lockfile error leaves the lockfile file unwritten, whatever the
\* integrity state and whatever the resolver produces.
C22_FrozenLockfileNeverWritten ==
  (kind = "init" /\ flags.frozenLockfile /\ error # "frozenLockfileError")
    => "lockfile" \notin writes
\* Every ignored root pattern has a pattern of its name among the given
\* flattened patterns.
IgnoredNamesAmong(patterns) ==
  \A p \in Range(request.ignorePatterns) : \E q \in Range(patterns) : q[1] = p[1]

\* C23: in init and in hydrate markIgnored runs only after flatten has
\* completed: flatten sees no ignore mark, so in flat mode the package of
\* every ignored root pattern is a flatten candidate and a pattern of its
\* name is among the flattened patterns, which are what linker.init is
\* given.
C23_MarkIgnoredOnlyAfterFlatten ==
  [][/\ pc = "flatten" => resolver.ignore = {}
     /\ ~(resolver'.ignore \subseteq resolver.ignore) => pc \in {"fetch", "hydrateMark"}
     /\ (pc = "flatten" /\ pc' # pc /\ flags.flat) => IgnoredNamesAmong(flattened')
     /\ (pc = "link" /\ pc' = "scripts" /\ flags.flat)
          => (flattened' = flattened /\ IgnoredNamesAmong(flattened))]_vars

\* C23 witness: a flat install in production mode whose devDependency b@2
\* is requested by the root only: flatten asked which version of b to use,
\* b@2 is among the flattened patterns linker.init is about to be given,
\* and markIgnored has since marked its package ignored.
C23_Witness ==
  /\ kind = "init" /\ pc = "link" /\ flags.flat /\ config.production
  /\ "reporter.select" \in calls
  /\ \E p \in Range(request.ignorePatterns) :
       /\ p \in Range(flattened)
       /\ resolver.patterns[p] \in resolver.ignore
       /\ Cardinality({k \in DOMAIN resolver.manifests : k[1] = p[1]}) = 1

====
